---------------------------- MODULE Spec2Model ----------------------------
(***************************************************************************)
(* The checkpoint converters of backend/ (convert_final.py,                *)
(* convert_model_v3.py, convert_model_v2.py) as a state machine: one run   *)
(* of a converter script over a saved-module directory.                    *)
(*                                                                         *)
(* Python str values are sequences of one-character strings, so that       *)
(* int(), the glob pattern and the substring tests are computed and not    *)
(* assumed.  bytes values are sequences of byte values.                    *)
(***************************************************************************)
EXTENDS Integers, Sequences, FiniteSets, TLC

(***************************************************************************)
(* Bounds of the model.                                                    *)
(***************************************************************************)
\* the number of external references one metadata stream holds, at most
MaxRefs == 2

(***************************************************************************)
(* Python values.                                                          *)
(***************************************************************************)
NoneV == [t |-> "None"]
IntV(n) == [t |-> "int", i |-> n]
StrV(s) == [t |-> "str", s |-> s]
\* a storage class object such as torch.FloatStorage; name is its __name__
ClsV(name) == [t |-> "class", name |-> name]
TupV(items) == [t |-> "tuple", items |-> items]
\* a typed CPU storage: the element type and the bytes it holds
StorageV(dtype, raw) == [t |-> "storage", dtype |-> dtype, raw |-> raw, device |-> "cpu"]

\* what a call does: return a value, or raise
Ret(v) == [k |-> "return", val |-> v]
Raise(exc, why) == [k |-> "raise", exc |-> exc, why |-> why]
NoCall == [k |-> "nocall"]

(***************************************************************************)
(* Strings.                                                                *)
(***************************************************************************)
S_storage == <<"s","t","o","r","a","g","e">>
S_module == <<"m","o","d","u","l","e">>
S_cpu == <<"c","p","u">>
S_cuda0 == <<"c","u","d","a",":","0">>
S_0 == <<"0">>
S_x == <<"x">>
S_neg1 == <<"-","1">>

N_Storage == <<"S","t","o","r","a","g","e">>
N_Float == <<"F","l","o","a","t">>
N_Double == <<"D","o","u","b","l","e">>
N_Half == <<"H","a","l","f">>
N_Int == <<"I","n","t">>
N_Long == <<"L","o","n","g">>
N_Short == <<"S","h","o","r","t">>
N_Byte == <<"B","y","t","e">>
N_Char == <<"C","h","a","r">>
N_Bool == <<"B","o","o","l">>
N_Exotic == <<"E","x","o","t","i","c">>

Digits == {"0","1","2","3","4","5","6","7","8","9"}

DigitVal(c) ==
  CASE c = "0" -> 0 [] c = "1" -> 1 [] c = "2" -> 2 [] c = "3" -> 3
    [] c = "4" -> 4 [] c = "5" -> 5 [] c = "6" -> 6 [] c = "7" -> 7
    [] c = "8" -> 8 [] c = "9" -> 9

\* Python's `sub in s` on two str values
Contains(sub, s) ==
  \E i \in 0..(Len(s) - Len(sub)) : SubSeq(s, i + 1, i + Len(sub)) = sub

RECURSIVE LStrip(_)
LStrip(s) == IF Len(s) > 0 /\ Head(s) = " " THEN LStrip(Tail(s)) ELSE s

RECURSIVE RStrip(_)
RStrip(s) ==
  IF Len(s) > 0 /\ s[Len(s)] = " " THEN RStrip(SubSeq(s, 1, Len(s) - 1)) ELSE s

RECURSIVE DigitsValue(_, _)
DigitsValue(s, acc) ==
  IF Len(s) = 0 THEN acc
  ELSE IF Head(s) = "_" THEN DigitsValue(Tail(s), acc)
  ELSE DigitsValue(Tail(s), 10 * acc + DigitVal(Head(s)))

\* Python's int(s) on a str: surrounding whitespace is stripped, one sign is
\* allowed, then decimal digits, single underscores allowed between digits.
\* ok = FALSE stands for ValueError.
ParseInt(s) ==
  LET t == RStrip(LStrip(s))
      signed == Len(t) > 0 /\ Head(t) \in {"+", "-"}
      body == IF signed THEN Tail(t) ELSE t
      wellformed ==
        /\ Len(body) > 0
        /\ \A i \in 1..Len(body) :
             \/ body[i] \in Digits
             \/ /\ body[i] = "_"
                /\ 1 < i /\ i < Len(body)
                /\ body[i - 1] \in Digits /\ body[i + 1] \in Digits
  IN IF ~wellformed THEN [ok |-> FALSE, val |-> 0]
     ELSE [ok |-> TRUE,
           val |-> IF signed /\ Head(t) = "-"
                   THEN 0 - DigitsValue(body, 0) ELSE DigitsValue(body, 0)]

\* Python's int(v) on any value: exc names what is raised when ok is FALSE
PyInt(v) ==
  IF v.t = "int" THEN [ok |-> TRUE, val |-> v.i, exc |-> "none"]
  ELSE IF v.t = "str"
       THEN LET p == ParseInt(v.s)
            IN [ok |-> p.ok, val |-> p.val,
                exc |-> IF p.ok THEN "none" ELSE "ValueError"]
       ELSE [ok |-> FALSE, val |-> 0, exc |-> "TypeError"]

\* Python's str(v) on a str or on a storage class
PyStr(v) ==
  IF v.t = "str" THEN v.s
  ELSE IF v.t = "class"
       THEN <<"<","c","l","a","s","s"," ","'","t","o","r","c","h",".">>
              \o v.name \o <<"'",">">>
       ELSE <<"N","o","n","e">>

\* the glob pattern '[0-9]*' on an entry name
GlobDigitStar(name) == Len(name) > 0 /\ Head(name) \in Digits

(***************************************************************************)
(* Element types.                                                          *)
(***************************************************************************)
\* bytes per element of a torch dtype
ItemSize(dtype) ==
  CASE dtype = "float32" -> 4 [] dtype = "float64" -> 8 [] dtype = "float16" -> 2
    [] dtype = "int32" -> 4 [] dtype = "int64" -> 8 [] dtype = "int16" -> 2
    [] dtype = "uint8" -> 1 [] dtype = "int8" -> 1 [] dtype = "bool" -> 1

\* torch.frombuffer(raw, dtype=dtype) followed by .storage(): the buffer is
\* reinterpreted whole; an empty buffer, or one whose length is no multiple of
\* the element size, is a ValueError
FromBuffer(raw, dtype) ==
  IF Len(raw) = 0 THEN Raise("ValueError", "frombuffer_empty")
  ELSE IF Len(raw) % ItemSize(dtype) # 0 THEN Raise("ValueError", "frombuffer_length")
  ELSE Ret(StorageV(dtype, raw))

\* the number of elements of a storage
Numel(st) == Len(st.raw) \div ItemSize(st.dtype)

(***************************************************************************)
(* The saved-module directory effv2s_fold5/ on disk.                       *)
(***************************************************************************)
\* the bytes of a file of n bytes
Bytes(n) == [i \in 1..n |-> i]

Absent == [kind |-> "absent"]
\* an entry that open() cannot read (a directory, a file without permission)
Unreadable == [kind |-> "unreadable"]
File(raw) == [kind |-> "file", raw |-> raw]

S_00 == <<"0","0">>

\* the entry names data/ may hold
DirNames == {S_0, S_00, S_neg1, S_x}

\* what each entry may be
FileOptions(name) ==
  IF name = S_0 THEN {Absent, Unreadable, File(Bytes(0)), File(Bytes(6)), File(Bytes(8))}
  ELSE IF name = S_00 THEN {Absent, File(Bytes(4))}
  ELSE {Absent, File(Bytes(8))}

\* the code point of a character of an entry name
Ord(c) == IF c = "-" THEN 45 ELSE IF c \in Digits THEN 48 + DigitVal(c) ELSE 120

\* Python's a < b on two str values
RECURSIVE StrLess(_, _)
StrLess(a, b) ==
  IF Len(b) = 0 THEN FALSE
  ELSE IF Len(a) = 0 THEN TRUE
  ELSE IF Ord(Head(a)) # Ord(Head(b)) THEN Ord(Head(a)) < Ord(Head(b))
  ELSE StrLess(Tail(a), Tail(b))

\* sorted(S) for a set of names
RECURSIVE Sorted(_)
Sorted(S) ==
  IF S = {} THEN <<>>
  ELSE LET m == CHOOSE x \in S : \A y \in S \ {x} : StrLess(x, y)
       IN <<m>> \o Sorted(S \ {m})

\* every order in which a directory listing may come
Orders(S) ==
  {s \in [1..Cardinality(S) -> S] : \A i, j \in 1..Cardinality(S) : i # j => s[i] # s[j]}

\* d[k] = v on a dict
Put(d, k, v) == [x \in (DOMAIN d) \cup {k} |-> IF x = k THEN v ELSE d[x]]

EmptyDict == [x \in {} |-> NoneV]

VARIABLES
  variant,        \* the script that runs
  pkl_exists,     \* effv2s_fold5/data.pkl exists
  dir_exists,     \* effv2s_fold5/data exists
  data_dir,       \* the entries of effv2s_fold5/data: name -> entry
  pc,             \* where the run is
  storage_data,   \* convert_final, convert_model_v3: index -> bytes
  storage_files,  \* convert_model_v2: index -> entry name
  io_failed,      \* the entries whose open/read raised IOError so far
  nrefs,          \* the references the unpickler has met so far
  last_ref,       \* the saved_id of the last persistent_load call
  last_result,    \* what that call did
  unresolved,     \* the calls so far that did not give a storage
  params,         \* the values spliced into the structure so far
  state_dict,     \* the local state_dict of convert_to_pt
  handed,         \* what model.load_state_dict was called with
  output_written, \* effv2s_fold5.pt has been written
  ret,            \* what the conversion function returned
  exit_code,      \* the exit status of the process
  reads,          \* entry name -> how often the file has been read
  output_file,    \* what effv2s_fold5.pt holds
  rebuild_tensor_v2, \* what torch._utils._rebuild_tensor_v2 is bound to
  model_file,     \* main.py: what MODEL_PATH holds
  predictor,      \* model_inference.py: the module global predictor
  app_state_predictor, \* main.py: app.state.predictor
  lifecycle,      \* main.py: where the lifespan of the app is
  requests,       \* main.py: the /predict requests in flight
  response,       \* main.py: the last answer of /predict
  health,         \* main.py: the last answer of the health endpoint
  last_init,      \* model_inference.py: the last initialize_predictor call
  constructed     \* model_inference.py: ImagePredictor objects built so far

\* the state of a converter run
converterVars == <<variant, pkl_exists, dir_exists, data_dir, pc, storage_data,
                   storage_files, io_failed, nrefs, last_ref, last_result, unresolved,
                   params, state_dict, handed, output_written, ret, exit_code, reads,
                   output_file, rebuild_tensor_v2>>

\* the state of the serving process
serverVars == <<model_file, predictor, app_state_predictor, lifecycle, requests,
                response, health, last_init, constructed>>

vars == <<converterVars, serverVars>>

\* the scripts that resolve references against a blob index
Variants == {"convert_final", "convert_model_v3", "convert_model_v2"}

\* every converter script
Scripts == Variants \cup {"convert_model"}

\* the entries that exist
Present(dir) == {n \in DOMAIN dir : dir[n].kind # "absent"}

\* one pass of the loop body of convert_final.py:39-45 over the listing `names`
\* from position i on: acc is [data, failed]
RECURSIVE LoadLoop(_, _, _, _)
LoadLoop(dir, names, i, acc) ==
  IF i > Len(names) THEN acc
  ELSE LET name == names[i]
           idx == ParseInt(name)
       IN IF ~idx.ok THEN LoadLoop(dir, names, i + 1, acc)
          ELSE IF dir[name].kind = "unreadable"
               THEN LoadLoop(dir, names, i + 1,
                             [acc EXCEPT !.failed = acc.failed \cup {name}])
               ELSE LoadLoop(dir, names, i + 1,
                             [acc EXCEPT !.data = Put(acc.data, idx.val, dir[name].raw)])

\* storage_data after the loop: sorted(data_dir.glob('[0-9]*'))
LoadStorageData(dir) ==
  LoadLoop(dir, Sorted({n \in Present(dir) : GlobDigitStar(n)}), 1,
           [data |-> EmptyDict, failed |-> {}])

\* the loop of convert_model_v2.py:45-50 over the listing `names`
RECURSIVE MapLoop(_, _, _)
MapLoop(names, i, acc) ==
  IF i > Len(names) THEN acc
  ELSE LET idx == ParseInt(names[i])
       IN IF ~idx.ok THEN MapLoop(names, i + 1, acc)
          ELSE MapLoop(names, i + 1, Put(acc, idx.val, names[i]))

(***************************************************************************)
(* persistent_load, the resolver of each converter.                        *)
(***************************************************************************)
\* Python's `v in d` for a dict d whose keys are ints
InDict(v, d) == v.t = "int" /\ v.i \in DOMAIN d

\* convert_final.py: the dtype chosen from str(storage_class)
DtypeFinal(s) ==
  IF Contains(N_Float \o N_Storage, s) THEN "float32"
  ELSE IF Contains(N_Double \o N_Storage, s) THEN "float64"
  ELSE IF Contains(N_Half \o N_Storage, s) THEN "float16"
  ELSE IF Contains(N_Int \o N_Storage, s) THEN "int32"
  ELSE IF Contains(N_Long \o N_Storage, s) THEN "int64"
  ELSE IF Contains(N_Short \o N_Storage, s) THEN "int16"
  ELSE IF Contains(N_Byte \o N_Storage, s) \/ Contains(N_Char \o N_Storage, s) THEN "uint8"
  ELSE IF Contains(N_Bool \o N_Storage, s) THEN "bool"
  ELSE "float32"

\* convert_model_v3.py: the dtype chosen from the str storage_type; "unknown"
\* stands for the RuntimeError of the else branch
DtypeV3(s) ==
  IF Contains(N_Float, s) THEN "float32"
  ELSE IF Contains(N_Double, s) THEN "float64"
  ELSE IF Contains(N_Half, s) THEN "float16"
  ELSE IF Contains(N_Int, s) THEN "int32"
  ELSE IF Contains(N_Long, s) THEN "int64"
  ELSE IF Contains(N_Short, s) THEN "int16"
  ELSE IF Contains(N_Byte, s) THEN "uint8"
  ELSE IF Contains(N_Char, s) THEN "int8"
  ELSE IF Contains(N_Bool, s) THEN "bool"
  ELSE "unknown"

\* convert_model_v2.py: the dtype chosen from the str storage_type; "unknown"
\* stands for the else branch, which returns None
DtypeV2(s) ==
  IF Contains(N_Float, s) THEN "float32"
  ELSE IF Contains(N_Int, s) \/ Contains(N_Long, s) THEN "int64"
  ELSE "unknown"

\* convert_final.py: persistent_load(saved_id) over storage_data
PersistentLoadFinal(data, saved_id) ==
  IF saved_id.t # "tuple" \/ Len(saved_id.items) < 4
  THEN Raise("RuntimeError", "unexpected_persistent_id")
  ELSE LET tag == saved_id.items[1]
           storage_class == saved_id.items[2]
           storage_id_str == saved_id.items[3]
           storage_id == PyInt(storage_id_str)
       IN IF tag # StrV(S_storage) THEN Raise("RuntimeError", "unknown_tag")
          ELSE IF ~storage_id.ok THEN Raise("RuntimeError", "cannot_convert_storage_id")
          ELSE IF storage_id.val \notin DOMAIN data
               THEN Raise("RuntimeError", "storage_not_found")
          ELSE FromBuffer(data[storage_id.val], DtypeFinal(PyStr(storage_class)))

\* convert_model_v3.py: the persistent_load that runs (lines 50-104)
PersistentLoadV3(data, saved_id) ==
  IF saved_id.t # "tuple" \/ Len(saved_id.items) < 4
  THEN Raise("RuntimeError", "unexpected_persistent_id")
  ELSE LET tag == saved_id.items[1]
           storage_type == saved_id.items[2]
           storage_id == saved_id.items[4]
       IN IF tag # StrV(S_storage) THEN Raise("RuntimeError", "unknown_tag")
          ELSE IF ~InDict(storage_id, data) THEN Raise("RuntimeError", "storage_not_found")
          ELSE IF storage_type.t # "str" THEN Raise("TypeError", "not_iterable")
          ELSE IF DtypeV3(storage_type.s) = "unknown"
               THEN Raise("RuntimeError", "unknown_storage_type")
          ELSE FromBuffer(data[storage_id.i], DtypeV3(storage_type.s))

\* convert_model_v2.py: what the body of the try block does (lines 60-79);
\* "fallthrough" is the end of the block with no return
TryBlockV2(files, dir, saved_id) ==
  IF Len(saved_id.items) < 4 THEN Raise("IndexError", "tuple_index")
  ELSE LET storage_type == saved_id.items[2]
           storage_idx == saved_id.items[4]
       IN IF ~InDict(storage_idx, files) THEN [k |-> "fallthrough"]
          ELSE IF dir[files[storage_idx.i]].kind # "file" THEN Raise("IOError", "open")
          ELSE IF storage_type.t # "str" THEN Raise("TypeError", "not_iterable")
          ELSE IF DtypeV2(storage_type.s) = "unknown" THEN Ret(NoneV)
          ELSE FromBuffer(dir[files[storage_idx.i]].raw, DtypeV2(storage_type.s))

\* convert_model_v2.py: persistent_load(saved_id) over storage_files
PersistentLoadV2(files, dir, saved_id) ==
  IF saved_id.t = "tuple" /\ Len(saved_id.items) >= 3
  THEN LET r == TryBlockV2(files, dir, saved_id)
       IN IF r.k = "return" THEN r ELSE Ret(NoneV)
  ELSE Ret(NoneV)

\* the entry persistent_load of convert_model_v2.py fails to read, if any
ReadFailedV2(files, dir, saved_id) ==
  IF /\ saved_id.t = "tuple" /\ Len(saved_id.items) >= 4
     /\ InDict(saved_id.items[4], files)
     /\ dir[files[saved_id.items[4].i]].kind # "file"
  THEN {files[saved_id.items[4].i]} ELSE {}

(***************************************************************************)
(* The references a metadata stream may hold.                              *)
(***************************************************************************)
ClosedNames == {N_Float, N_Double, N_Half, N_Int, N_Long, N_Short, N_Byte, N_Char, N_Bool}

\* element-type descriptors: the closed set as text, one outside it, and two
\* storage classes
Descriptors ==
  {StrV(n \o N_Storage) : n \in ClosedNames \cup {N_Exotic}}
    \cup {ClsV(N_Float \o N_Storage), ClsV(N_Long \o N_Storage)}

IdxVals == {IntV(0), IntV(7), StrV(S_0), StrV(S_x)}
DevVals == {StrV(S_cpu), StrV(S_cuda0)}

\* the two field orders of the variants: index before device, device before index
FieldPairs == (IdxVals \X DevVals) \cup (DevVals \X IdxVals)

Refs ==
  {TupV(<<StrV(S_storage), d, p[1], p[2]>>) :
     d \in Descriptors,
     p \in {<<IntV(0), StrV(S_cpu)>>, <<StrV(S_cpu), IntV(0)>>}}
  \cup
  {TupV(<<tag, d, p[1], p[2]>>) :
     tag \in {StrV(S_storage), StrV(S_module)},
     d \in {StrV(N_Float \o N_Storage), StrV(N_Exotic \o N_Storage)},
     p \in FieldPairs}
  \cup
  {StrV(S_storage),
   TupV(<<StrV(S_storage), StrV(N_Float \o N_Storage), IntV(0), NoneV>>),
   TupV(<<StrV(S_storage), StrV(N_Float \o N_Storage), NoneV, IntV(0)>>),
   TupV(<<StrV(S_storage), StrV(N_Float \o N_Storage), IntV(0)>>),
   TupV(<<StrV(S_storage), ClsV(N_Float \o N_Storage), StrV(S_0), StrV(S_cuda0), IntV(2)>>),
   TupV(<<StrV(S_storage), StrV(N_Float \o N_Storage), StrV(S_cuda0), IntV(0), IntV(2)>>)}

(***************************************************************************)
(* The structure the unpickler builds, and its unwrapping.                 *)
(***************************************************************************)
S_model == <<"m","o","d","e","l">>
S_epoch == <<"e","p","o","c","h">>

DictV(d) == [t |-> "dict", d |-> d]

\* the name of the i-th parameter
ParamName(i) == <<"p", IF i = 1 THEN "1" ELSE IF i = 2 THEN "2" ELSE "3">>

\* the parameter map over the spliced values
ParamMap(vals) ==
  DictV([n \in {ParamName(i) : i \in 1..Len(vals)} |->
           vals[CHOOSE i \in 1..Len(vals) : ParamName(i) = n]])

\* the top-level results a metadata stream may describe
Shapes == {"flat", "wrapped", "wrapped_extra", "wrapped_named_model", "sequence"}

\* a parameter map one of whose parameters is itself named "model"
NamedModel(vals) == DictV(Put(ParamMap(vals).d, S_model, vals[1]))

TopLevel(shape, vals) ==
  CASE shape = "flat" -> ParamMap(vals)
    [] shape = "wrapped" -> DictV(Put(EmptyDict, S_model, ParamMap(vals)))
    [] shape = "wrapped_named_model" -> DictV(Put(EmptyDict, S_model, NamedModel(vals)))
    [] shape = "wrapped_extra" ->
         DictV(Put(Put(EmptyDict, S_model, ParamMap(vals)), S_epoch, IntV(1)))
    [] shape = "sequence" -> TupV(vals)

\* len(keys) == 1 and "model" in state_dict
SingleModelKey(sd) == Cardinality(DOMAIN sd.d) = 1 /\ S_model \in DOMAIN sd.d

\* convert_model_v3.py:202-208, convert_model_v2.py:114-126
UnwrapOnce(sd) ==
  IF sd.t = "dict" /\ SingleModelKey(sd) THEN sd.d[S_model] ELSE sd

\* convert_final.py:124-136: the second test needs no single key
UnwrapFinal(sd) ==
  IF sd.t # "dict" THEN sd
  ELSE LET first == IF SingleModelKey(sd) THEN sd.d[S_model] ELSE sd
       IN IF first.t = "dict" /\ S_model \in DOMAIN first.d THEN first.d[S_model]
          ELSE first

\* every value of the map is a tensor (here: the storage that backs it)
AllTensors(sd) == \A n \in DOMAIN sd.d : sd.d[n].t = "storage"

\* model.load_state_dict(sd): the outcomes it may have.  A value that is no
\* mapping is a TypeError; an empty map misses every key of the model; a map
\* holding a value that is no tensor never loads; whether the names and
\* shapes fit the model is not decided here.
LoadOutcomes(sd) ==
  IF sd.t # "dict" THEN {"TypeError"}
  ELSE IF DOMAIN sd.d = {} THEN {"RuntimeError"}
  ELSE IF AllTensors(sd) THEN {"ok", "RuntimeError"}
  ELSE {"RuntimeError"}

\* the element type create_model() gives the entry of a name: the second
\* parameter stands for an integer buffer, the others for float32 weights
ModelDtype(n) == IF n = ParamName(2) THEN "int64" ELSE "float32"

\* load_state_dict copies a tensor into the model's own tensor, which keeps
\* the model's element type: the values are converted, and the bytes are
\* then no longer those of the source
CopyInto(st, dtype) ==
  IF st.dtype = dtype THEN st
  ELSE StorageV(dtype, [i \in 1..(Numel(st) * ItemSize(dtype)) |-> 0 - i])

\* model.state_dict() after model.load_state_dict(sd) has succeeded
ModelStateDict(sd) == DictV([n \in DOMAIN sd.d |-> CopyInto(sd.d[n], ModelDtype(n))])

\* model_inference.py:135-138: what torch.load gave, with the "model" entry
\* taken out when there is one
ServingUnwrap(sd) ==
  IF sd.t = "dict" /\ S_model \in DOMAIN sd.d THEN sd.d[S_model] ELSE sd

(***************************************************************************)
(* One run of a converter script.                                          *)
(***************************************************************************)
\* no serving process runs
ServerOff ==
  /\ model_file = Absent
  /\ predictor = NoneV
  /\ app_state_predictor = NoneV
  /\ lifecycle = "off"
  /\ requests = <<>>
  /\ response = NoCall
  /\ health = NoCall
  /\ last_init = NoCall
  /\ constructed = 0

Init ==
  /\ variant \in Scripts
  /\ pkl_exists \in BOOLEAN
  /\ dir_exists \in BOOLEAN
  /\ data_dir \in [DirNames -> UNION {FileOptions(n) : n \in DirNames}]
  /\ \A n \in DirNames : data_dir[n] \in FileOptions(n)
  /\ ~dir_exists => \A n \in DirNames : data_dir[n] = Absent
  \* convert_model.py never looks into effv2s_fold5/data
  /\ variant = "convert_model" => \A n \in DirNames : data_dir[n] = Absent
  /\ pc = "start"
  /\ storage_data = EmptyDict
  /\ storage_files = EmptyDict
  /\ io_failed = {}
  /\ nrefs = 0
  /\ last_ref = NoneV
  /\ last_result = NoCall
  /\ unresolved = 0
  /\ params = <<>>
  /\ state_dict = NoneV
  /\ handed = NoCall
  /\ output_written = FALSE
  /\ ret = "running"
  /\ exit_code = -1
  /\ reads = [n \in DirNames |-> 0]
  /\ output_file = NoneV
  /\ rebuild_tensor_v2 = "original_rebuild"
  /\ ServerOff

\* for comparison: a script that exits with status 0 whatever the function
\* returned
ReturnFalseExitZero ==
  /\ pc' = "exit"
  /\ ret' = "False"
  /\ exit_code' = 0

\* the conversion function returns False and the script exits with status 1
ReturnFalse ==
  /\ pc' = "exit"
  /\ ret' = "False"
  /\ exit_code' = 1

\* an exception escapes the conversion function: the interpreter exits with 1;
\* convert_model.py:167-171 catches it and returns False
Escapes ==
  IF variant = "convert_model" THEN ReturnFalse
  ELSE /\ pc' = "exit"
       /\ ret' = "raised"
       /\ exit_code' = 1

\* convert_final.py:30-32, convert_model_v3.py:30-32, convert_model_v2.py:31-37,
\* convert_model.py:30-40
CheckInputs ==
  /\ pc = "start"
  /\ IF ~pkl_exists \/ (variant = "convert_model_v2" /\ ~dir_exists)
     THEN ReturnFalse
     ELSE /\ pc' = IF variant = "convert_model" THEN "method1" ELSE "scan"
          /\ UNCHANGED <<ret, exit_code>>
  /\ UNCHANGED <<variant, pkl_exists, dir_exists, data_dir, storage_data, storage_files,
                 io_failed, nrefs, last_ref, last_result, unresolved, params,
                 state_dict, handed, output_written, reads, output_file,
                 rebuild_tensor_v2>>
  /\ UNCHANGED serverVars

\* the files the loop of convert_final.py:39-45 reads: one read for each
\* entry the pattern matches, whose name int() takes and which can be read
ReadByLoad(dir) ==
  {n \in Present(dir) : GlobDigitStar(n) /\ ParseInt(n).ok /\ dir[n].kind = "file"}

\* convert_final.py:38-45, convert_model_v3.py:38-45: the whole loop
LoadStorageFiles ==
  /\ pc = "scan"
  /\ variant \in {"convert_final", "convert_model_v3"}
  /\ storage_data' = LoadStorageData(data_dir).data
  /\ io_failed' = io_failed \cup LoadStorageData(data_dir).failed
  /\ reads' = [n \in DirNames |-> reads[n] + (IF n \in ReadByLoad(data_dir) THEN 1 ELSE 0)]
  /\ pc' = "unpickle"
  /\ UNCHANGED <<variant, pkl_exists, dir_exists, data_dir, storage_files, nrefs,
                 last_ref, last_result, unresolved, params, state_dict, handed,
                 output_written, ret, exit_code, output_file, rebuild_tensor_v2>>
  /\ UNCHANGED serverVars

\* convert_model_v2.py:44-50: the whole loop, in the order iterdir() lists
MapStorageFiles ==
  /\ pc = "scan"
  /\ variant = "convert_model_v2"
  /\ \E names \in Orders(Present(data_dir)) :
       storage_files' = MapLoop(names, 1, EmptyDict)
  /\ pc' = "unpickle"
  /\ UNCHANGED <<variant, pkl_exists, dir_exists, data_dir, storage_data, io_failed,
                 nrefs, last_ref, last_result, unresolved, params, state_dict, handed,
                 output_written, ret, exit_code, reads, output_file, rebuild_tensor_v2>>
  /\ UNCHANGED serverVars

\* what torch.load(data.pkl) may give when it does not raise
DirectLoads ==
  {NoneV} \cup {TopLevel(shape, <<StorageV("float32", Bytes(8))>>) : shape \in Shapes}

\* convert_model.py:46-53: method 1, torch.load with map_location="cpu"
Method1 ==
  /\ pc = "method1"
  /\ \/ \E sd \in DirectLoads : state_dict' = sd /\ pc' = "loaded"
     \/ pc' = "method2" /\ UNCHANGED state_dict
  /\ UNCHANGED <<variant, pkl_exists, dir_exists, data_dir, storage_data, storage_files,
                 io_failed, nrefs, last_ref, last_result, unresolved, params, handed,
                 output_written, ret, exit_code, reads, output_file, rebuild_tensor_v2>>
  /\ UNCHANGED serverVars

\* convert_model.py:55-69: method 2, torch.load on CUDA and the loop that
\* moves the tensors of the mapping to the CPU; the loop raises on a value
\* that is no mapping
Method2 ==
  /\ pc = "method2"
  /\ \E cuda_available \in BOOLEAN :
       \/ /\ cuda_available
          /\ \E sd \in {x \in DirectLoads : x.t = "dict"} :
               state_dict' = sd /\ pc' = "loaded"
       \/ pc' = "method3" /\ UNCHANGED state_dict
  /\ UNCHANGED <<variant, pkl_exists, dir_exists, data_dir, storage_data, storage_files,
                 io_failed, nrefs, last_ref, last_result, unresolved, params, handed,
                 output_written, ret, exit_code, reads, output_file, rebuild_tensor_v2>>
  /\ UNCHANGED serverVars

\* for comparison: a method 3 without the finally clause
RestoreRebuildSkipped == UNCHANGED rebuild_tensor_v2

\* convert_model.py:99-101: the finally clause of method 3 binds
\* torch._utils._rebuild_tensor_v2 to the function saved at line 79; the
\* other scripts never rebind it
RestoreRebuild == rebuild_tensor_v2' = "original_rebuild"

\* convert_model.py:71-96: method 3 replaces the tensor builder and starts
\* the unpickler
Method3 ==
  /\ pc = "method3"
  /\ rebuild_tensor_v2' = "rebuild_tensor_cpu"
  /\ pc' = "unpickle"
  /\ UNCHANGED <<variant, pkl_exists, dir_exists, data_dir, storage_data, storage_files,
                 io_failed, nrefs, last_ref, last_result, unresolved, params, state_dict,
                 handed, output_written, ret, exit_code, reads, output_file>>
  /\ UNCHANGED serverVars

\* for comparison: a resolver that moves the storage to the device the
\* reference names
PersistentLoadOnDevice(saved_id) ==
  LET r == CASE variant = "convert_final" -> PersistentLoadFinal(storage_data, saved_id)
             [] variant = "convert_model_v3" -> PersistentLoadV3(storage_data, saved_id)
             [] variant = "convert_model_v2" ->
                  PersistentLoadV2(storage_files, data_dir, saved_id)
             [] variant = "convert_model" -> Ret(saved_id)
      hint == saved_id.items[IF variant = "convert_final" THEN 4 ELSE 3]
  IN IF r.k = "return" /\ r.val.t = "storage" /\ hint = StrV(S_cuda0)
     THEN Ret([r.val EXCEPT !.device = "cuda:0"])
     ELSE r

\* persistent_load of the script that runs; convert_model.py:85-88 gives the
\* saved_id back
PersistentLoad(saved_id) ==
  CASE variant = "convert_final" -> PersistentLoadFinal(storage_data, saved_id)
    [] variant = "convert_model_v3" -> PersistentLoadV3(storage_data, saved_id)
    [] variant = "convert_model_v2" -> PersistentLoadV2(storage_files, data_dir, saved_id)
    [] variant = "convert_model" -> Ret(saved_id)

\* a call gave a storage
GaveStorage(r) == r.k = "return" /\ r.val.t = "storage"

\* the entry persistent_load of convert_model_v2.py reads (lines 63-67), if any
ReadByResolveV2(files, dir, saved_id) ==
  IF /\ saved_id.t = "tuple" /\ Len(saved_id.items) >= 4
     /\ InDict(saved_id.items[4], files)
     /\ dir[files[saved_id.items[4].i]].kind = "file"
  THEN {files[saved_id.items[4].i]} ELSE {}

\* the files one persistent_load call of the running script reads
ReadByResolve(saved_id) ==
  IF variant = "convert_model_v2"
  THEN ReadByResolveV2(storage_files, data_dir, saved_id) ELSE {}

\* unpickler.load() meets one external reference and calls persistent_load.
\* Whatever is raised inside load() is caught by the except clause around it
\* (convert_final.py:117-121, convert_model_v3.py:195-199,
\* convert_model_v2.py:96-100 with 109-111, convert_model.py:99-107, where
\* the finally clause puts the tensor builder back).  in_tensor: the
\* reference is the storage argument of a tensor record of the stream, whose
\* rebuild raises on a value that is no storage; otherwise the value is
\* spliced in as it is.
ResolveReference ==
  /\ pc = "unpickle"
  /\ nrefs < MaxRefs
  /\ \E saved_id \in Refs, in_tensor \in BOOLEAN :
       LET r == PersistentLoad(saved_id)
       IN /\ last_ref' = saved_id
          /\ last_result' = r
          /\ unresolved' = unresolved + (IF GaveStorage(r) THEN 0 ELSE 1)
          /\ io_failed' = io_failed \cup
               (IF variant = "convert_model_v2"
                THEN ReadFailedV2(storage_files, data_dir, saved_id) ELSE {})
          /\ reads' = [n \in DirNames |->
                         reads[n] + (IF n \in ReadByResolve(saved_id) THEN 1 ELSE 0)]
          /\ IF r.k = "raise" \/ (~GaveStorage(r) /\ in_tensor)
             THEN /\ ReturnFalse
                  /\ RestoreRebuild
                  /\ UNCHANGED params
             ELSE /\ params' = Append(params, r.val)
                  /\ UNCHANGED <<pc, ret, exit_code, rebuild_tensor_v2>>
  /\ nrefs' = nrefs + 1
  /\ UNCHANGED <<variant, pkl_exists, dir_exists, data_dir, storage_data, storage_files,
                 state_dict, handed, output_written, output_file>>
  /\ UNCHANGED serverVars

\* unpickler.load() returns the structure it built
UnpicklerReturns ==
  /\ pc = "unpickle"
  /\ \E shape \in Shapes :
       /\ shape = "wrapped_named_model" => Len(params) > 0
       /\ state_dict' = TopLevel(shape, params)
  /\ RestoreRebuild
  /\ pc' = "loaded"
  /\ UNCHANGED <<variant, pkl_exists, dir_exists, data_dir, storage_data, storage_files,
                 io_failed, nrefs, last_ref, last_result, unresolved, params, handed,
                 output_written, ret, exit_code, reads, output_file>>
  /\ UNCHANGED serverVars

\* unpickler.load() raises on a stream it cannot read
UnpicklerRaises ==
  /\ pc = "unpickle"
  /\ ReturnFalse
  /\ RestoreRebuild
  /\ UNCHANGED <<variant, pkl_exists, dir_exists, data_dir, storage_data, storage_files,
                 io_failed, nrefs, last_ref, last_result, unresolved, params,
                 state_dict, handed, output_written, reads, output_file>>
  /\ UNCHANGED serverVars

\* the "model" wrapper is taken off; convert_model.py:109-111 first gives up
\* on a state_dict that is None
ProcessStateDict ==
  /\ pc = "loaded"
  /\ IF variant = "convert_model" /\ state_dict = NoneV
     THEN ReturnFalse /\ UNCHANGED state_dict
     ELSE /\ state_dict' = IF variant = "convert_final" THEN UnwrapFinal(state_dict)
                           ELSE UnwrapOnce(state_dict)
          /\ pc' = "processed"
          /\ UNCHANGED <<ret, exit_code>>
  /\ UNCHANGED <<variant, pkl_exists, dir_exists, data_dir, storage_data, storage_files,
                 io_failed, nrefs, last_ref, last_result, unresolved, params, handed,
                 output_written, reads, output_file, rebuild_tensor_v2>>
  /\ UNCHANGED serverVars

\* model.load_state_dict(state_dict) inside try ... except RuntimeError
LoadIntoModel ==
  /\ pc = "processed"
  /\ handed' = Ret(state_dict)
  /\ \E outcome \in LoadOutcomes(state_dict) :
       CASE outcome = "ok" -> pc' = "model_ready" /\ UNCHANGED <<ret, exit_code>>
         [] outcome = "RuntimeError" -> ReturnFalse
         [] outcome = "TypeError" -> Escapes
  /\ UNCHANGED <<variant, pkl_exists, dir_exists, data_dir, storage_data, storage_files,
                 io_failed, nrefs, last_ref, last_result, unresolved, params,
                 state_dict, output_written, reads, output_file, rebuild_tensor_v2>>
  /\ UNCHANGED serverVars

\* torch.save({"model": model.state_dict()}, output_file); convert_model.py
\* and convert_model_v2.py then read the file back (lines 154 and 152)
SaveCheckpoint ==
  /\ pc = "model_ready"
  /\ \E saved \in BOOLEAN, verified \in BOOLEAN :
       /\ output_written' = saved
       /\ output_file' = IF saved
                         THEN DictV(Put(EmptyDict, S_model, ModelStateDict(handed.val)))
                         ELSE output_file
       /\ IF ~saved \/ (variant \in {"convert_model", "convert_model_v2"} /\ ~verified)
          THEN Escapes
          ELSE pc' = "exit" /\ ret' = "True" /\ exit_code' = 0
  /\ UNCHANGED <<variant, pkl_exists, dir_exists, data_dir, storage_data, storage_files,
                 io_failed, nrefs, last_ref, last_result, unresolved, params,
                 state_dict, handed, reads, rebuild_tensor_v2>>
  /\ UNCHANGED serverVars

Next ==
  \/ CheckInputs
  \/ LoadStorageFiles
  \/ MapStorageFiles
  \/ Method1
  \/ Method2
  \/ Method3
  \/ ResolveReference
  \/ UnpicklerReturns
  \/ UnpicklerRaises
  \/ ProcessStateDict
  \/ LoadIntoModel
  \/ SaveCheckpoint

Spec == Init /\ [][Next]_vars

(***************************************************************************)
(* The serving process: main.py and model_inference.py.                    *)
(***************************************************************************)
\* the /predict requests in flight at one time, at most
MaxRequests == 2
\* the times the lifespan of the app is entered in one process, at most
MaxStarts == 2

\* no converter runs
ConverterOff ==
  /\ variant = "none"
  /\ pkl_exists = FALSE
  /\ dir_exists = FALSE
  /\ data_dir = [n \in DirNames |-> Absent]
  /\ pc = "off"
  /\ storage_data = EmptyDict
  /\ storage_files = EmptyDict
  /\ io_failed = {}
  /\ nrefs = 0
  /\ last_ref = NoneV
  /\ last_result = NoCall
  /\ unresolved = 0
  /\ params = <<>>
  /\ state_dict = NoneV
  /\ handed = NoCall
  /\ output_written = FALSE
  /\ ret = "running"
  /\ exit_code = -1
  /\ reads = [n \in DirNames |-> 0]
  /\ output_file = NoneV
  /\ rebuild_tensor_v2 = "original_rebuild"

\* a reference to the i-th ImagePredictor object built by the process
RefV(i) == [t |-> "ref", id |-> i]

\* app.state has no attribute predictor yet
Unset == [t |-> "unset"]

\* what MODEL_PATH may hold: nothing, a file torch.load cannot read, a
\* checkpoint file, or a saved-module directory
Corrupt == [kind |-> "corrupt"]
Checkpoint(sd) == [kind |-> "checkpoint", sd |-> sd]
SavedModule(jit, pkl) == [kind |-> "dir", jit |-> jit, pkl |-> pkl]

\* the structures a checkpoint file may hold
Contents ==
  {TopLevel(shape, <<StorageV("float32", Bytes(8))>>) :
     shape \in {"flat", "wrapped", "wrapped_extra"}}

ModelFiles ==
  {Absent, Corrupt}
    \cup {Checkpoint(sd) : sd \in Contents}
    \cup {SavedModule(TRUE, Absent),
          SavedModule(FALSE, Checkpoint(TopLevel("wrapped", <<StorageV("float32", Bytes(8))>>)))}

\* a model in evaluation mode holding the parameters sd
EvalModel(sd) == [sd |-> sd, training |-> FALSE]

\* model_inference.py:135-144: the state dict is unwrapped, loaded into a
\* fresh model, and the model is put in evaluation mode
LoadStateDict(sd) ==
  {IF o = "ok" THEN Ret(EvalModel(ModelStateDict(ServingUnwrap(sd))))
   ELSE Raise(o, "load_state_dict") : o \in LoadOutcomes(ServingUnwrap(sd))}

\* ImagePredictor._load_model(ckpt_path), model_inference.py:100-147: every
\* outcome it may have on what the path holds
LoadModel(ckpt) ==
  CASE ckpt.kind = "absent" -> {Raise("FileNotFoundError", "torch_load")}
    [] ckpt.kind = "corrupt" -> {Raise("UnpicklingError", "torch_load")}
    [] ckpt.kind = "checkpoint" -> LoadStateDict(ckpt.sd)
    [] ckpt.kind = "dir" ->
         IF ckpt.jit
         THEN {Ret(EvalModel(DictV(EmptyDict)))}
         ELSE IF ckpt.pkl.kind = "absent"
              THEN {Raise("FileNotFoundError", "data_pkl")}
              ELSE LoadStateDict(ckpt.pkl.sd)

\* for comparison: a forward pass that updates the running statistics in
\* every mode
ForwardPassTraining(m) ==
  [m EXCEPT !.sd = DictV(Put(m.sd.d, <<"running_mean">>, IntV(1)))]

\* the forward pass of a model: in training mode it updates the running
\* statistics of the model, in evaluation mode (model_inference.py:143) it
\* leaves the model as it is
ForwardPass(m) ==
  IF m.training THEN [m EXCEPT !.sd = DictV(Put(m.sd.d, <<"running_mean">>, IntV(1)))]
  ELSE m

\* str.lower() on one character
Lower(c) ==
  CASE c = "P" -> "p" [] c = "N" -> "n" [] c = "G" -> "g" [] c = "J" -> "j"
    [] OTHER -> c

\* the position of the last "." of s, 0 when it has none
LastDot(s) ==
  IF \E i \in 1..Len(s) : s[i] = "."
  THEN CHOOSE i \in 1..Len(s) : s[i] = "." /\ \A j \in (i + 1)..Len(s) : s[j] # "."
  ELSE 0

\* filename.rsplit('.', 1)[1].lower()
FileExt(s) == [i \in 1..(Len(s) - LastDot(s)) |-> Lower(s[LastDot(s) + i])]

\* main.py:95
allowed_extensions ==
  {<<"j","p","g">>, <<"j","p","e","g">>, <<"p","n","g">>, <<"g","i","f">>, <<"b","m","p">>}

\* main.py:94-106: the status the validation of the file name answers with,
\* 0 when it lets the request pass
ValidateFilename(filename) ==
  IF filename = NoneV \/ LastDot(filename.s) = 0 THEN 400
  ELSE IF FileExt(filename.s) \notin allowed_extensions THEN 400
  ELSE 0

\* the file names a request may carry
Filenames ==
  {NoneV, StrV(<<"a">>), StrV(<<"a",".","J","P","G">>), StrV(<<"a",".","t","x","t">>),
   StrV(<<"a",".","p","n","g",".">>)}

\* for comparison: a health endpoint that does not look at the predictor
HealthStatusAlwaysOk(p) == "ok"

\* main.py:80: the status the health endpoint reports
HealthStatus(p) == IF p # NoneV /\ p # Unset THEN "ok" ELSE "degraded"

\* what ImagePredictor.predict returns (model_inference.py:149-237): a
\* success dictionary, or an error dictionary with an error_code; keys are
\* the keys of the dictionary
Success ==
  [keys |-> {"predicted_label", "predicted_index", "probabilities", "success"},
   error_code |-> "none"]
ErrorDict(code) == [keys |-> {"error", "error_code"}, error_code |-> code]

\* the uploads a request may carry: kind of content, and whether it is
\* larger than MAX_FILE_SIZE
Uploads == {[image |-> i, too_large |-> l] : i \in {"image", "garbage"}, l \in BOOLEAN}

\* where a call of predict on an image may go wrong: nowhere, in the
\* transform, in the forward pass, with probabilities outside [0, 1], in
\* softmax, in argmax, or outside the inner try blocks before or after the
\* forward pass
Faults ==
  {"none", "transform", "forward", "bad_probability", "softmax", "argmax",
   "other_before", "other_after"}

\* model_inference.py:155-231: the body of the outer try of predict; each
\* inner except returns an error dictionary, anything else propagates
PredictBody(upload, fault) ==
  IF fault = "other_before"
  THEN [k |-> "raise", ran |-> FALSE]
  ELSE IF upload.image = "garbage"
  THEN [k |-> "return", result |-> ErrorDict("INVALID_IMAGE"), ran |-> FALSE]
  ELSE IF fault = "transform"
  THEN [k |-> "return", result |-> ErrorDict("PREPROCESSING_ERROR"), ran |-> FALSE]
  ELSE IF fault = "forward"
  THEN [k |-> "return", result |-> ErrorDict("INFERENCE_ERROR"), ran |-> TRUE]
  ELSE IF fault = "bad_probability"
  THEN [k |-> "return", result |-> ErrorDict("INVALID_PROBABILITY"), ran |-> TRUE]
  ELSE IF fault = "softmax"
  THEN [k |-> "return", result |-> ErrorDict("PROBABILITY_ERROR"), ran |-> TRUE]
  ELSE IF fault = "argmax"
  THEN [k |-> "return", result |-> ErrorDict("PREDICTION_ERROR"), ran |-> TRUE]
  ELSE IF fault = "other_after"
  THEN [k |-> "raise", ran |-> TRUE]
  ELSE [k |-> "return", result |-> Success, ran |-> TRUE]

\* model_inference.py:154-237: predict; the outer except turns what the body
\* raises into an error dictionary
Predict(upload, fault) ==
  LET body == PredictBody(upload, fault)
  IN IF body.k = "raise"
     THEN [k |-> "return", result |-> ErrorDict("UNEXPECTED_ERROR"), ran |-> body.ran]
     ELSE body

\* the results predict may have on an upload, and whether the model ran
PredictResults(upload) == {Predict(upload, fault) : fault \in Faults}

\* for comparison: an endpoint that answers whatever predict returned
StatusOfAnyResult(result) == 200

\* main.py:130-139: the status the endpoint answers a predict result with;
\* result['predicted_label'] is a KeyError on a dictionary without that key,
\* which the except turns into status 500
StatusOf(result) == IF "predicted_label" \in result.keys THEN 200 ELSE 500

InitServer ==
  /\ ConverterOff
  /\ model_file \in ModelFiles
  /\ predictor = NoneV
  /\ app_state_predictor = Unset
  /\ lifecycle = [phase |-> "init", starts |-> 0, found |-> FALSE]
  /\ requests = <<>>
  /\ response = NoCall
  /\ health = NoCall
  /\ last_init = NoCall
  /\ constructed = <<>>

\* between two lifespans the file at MODEL_PATH may be replaced
ReplaceModelFile ==
  /\ lifecycle.phase \in {"down", "failed"}
  /\ lifecycle.starts < MaxStarts
  /\ \E f \in ModelFiles \ {model_file} : model_file' = f
  /\ UNCHANGED <<predictor, app_state_predictor, lifecycle, requests, response, health,
                 last_init, constructed>>
  /\ UNCHANGED converterVars

\* for comparison: an initialize_predictor that builds a new ImagePredictor
\* on every call
InitializePredictorAlways(ckpt) ==
  \E r \in LoadModel(ckpt) :
    IF r.k = "return"
    THEN /\ constructed' = Append(constructed, [ckpt |-> ckpt, model |-> r.val])
         /\ predictor' = RefV(Len(constructed) + 1)
         /\ last_init' = [k |-> "return", pre |-> predictor, ckpt |-> ckpt,
                          val |-> RefV(Len(constructed) + 1), built |-> TRUE]
    ELSE /\ UNCHANGED <<constructed, predictor>>
         /\ last_init' = [k |-> "raise", pre |-> predictor, ckpt |-> ckpt,
                          val |-> NoneV, built |-> FALSE]

\* model_inference.py:242-254: initialize_predictor(ckpt_path), where ckpt is
\* what the path holds.  last_init keeps what the call found and did.
InitializePredictor(ckpt) ==
  IF predictor = NoneV
  THEN \E r \in LoadModel(ckpt) :
         IF r.k = "return"
         THEN /\ constructed' = Append(constructed, [ckpt |-> ckpt, model |-> r.val])
              /\ predictor' = RefV(Len(constructed) + 1)
              /\ last_init' = [k |-> "return", pre |-> predictor, ckpt |-> ckpt,
                               val |-> RefV(Len(constructed) + 1), built |-> TRUE]
         ELSE /\ UNCHANGED <<constructed, predictor>>
              /\ last_init' = [k |-> "raise", pre |-> predictor, ckpt |-> ckpt,
                               val |-> NoneV, built |-> FALSE]
  ELSE /\ UNCHANGED <<constructed, predictor>>
       /\ last_init' = [k |-> "return", pre |-> predictor, ckpt |-> ckpt,
                        val |-> predictor, built |-> FALSE]

\* main.py:39-53: the startup half of lifespan
LifespanStartup ==
  /\ lifecycle.phase \in {"init", "down", "failed"}
  /\ lifecycle.starts < MaxStarts
  /\ IF model_file.kind # "absent"
     THEN /\ InitializePredictor(model_file)
          /\ IF last_init'.k = "return"
             THEN /\ app_state_predictor' = last_init'.val
                  /\ lifecycle' = [phase |-> "up", starts |-> lifecycle.starts + 1,
                                   found |-> TRUE]
             ELSE /\ UNCHANGED app_state_predictor
                  /\ lifecycle' = [phase |-> "failed", starts |-> lifecycle.starts + 1,
                                   found |-> TRUE]
     ELSE /\ app_state_predictor' = NoneV
          /\ lifecycle' = [phase |-> "up", starts |-> lifecycle.starts + 1,
                           found |-> FALSE]
          /\ UNCHANGED <<predictor, last_init, constructed>>
  /\ UNCHANGED <<model_file, requests, response, health>>
  /\ UNCHANGED converterVars

\* main.py:55-56: the shutdown half of lifespan
LifespanShutdown ==
  /\ lifecycle.phase = "up"
  /\ requests = <<>>
  /\ app_state_predictor' = NoneV
  /\ lifecycle' = [lifecycle EXCEPT !.phase = "down"]
  /\ UNCHANGED <<model_file, predictor, requests, response, health, last_init,
                 constructed>>
  /\ UNCHANGED converterVars

\* main.py:77-87: GET /
Root ==
  /\ lifecycle.phase = "up"
  /\ health' = [k |-> "return", status |-> HealthStatus(app_state_predictor),
                seen |-> app_state_predictor, epoch |-> lifecycle.starts]
  /\ UNCHANGED <<model_file, predictor, app_state_predictor, lifecycle, requests,
                 response, last_init, constructed>>
  /\ UNCHANGED converterVars

\* a sequence without its i-th element
RemoveAt(seq, i) == SubSeq(seq, 1, i - 1) \o SubSeq(seq, i + 1, Len(seq))

\* the answer to a request: its status, what predict returned if it was
\* called, whether the model ran, and how many other requests were in flight
Answer(req, status, result, ran, others) ==
  [k |-> "return", filename |-> req.filename, epoch |-> req.epoch, seen |-> req.seen,
   status |-> status, result |-> result, ran |-> ran, others |-> others]

\* main.py:89-112: POST /predict up to the first await: the file name is
\* validated and app.state.predictor is fetched
PredictBegin ==
  /\ lifecycle.phase = "up"
  /\ Len(requests) < MaxRequests
  /\ \E filename \in Filenames :
       LET bad == ValidateFilename(filename)
           req == [filename |-> filename, epoch |-> lifecycle.starts,
                   seen |-> app_state_predictor]
       IN IF bad # 0
          THEN /\ response' = Answer(req, bad, NoCall, FALSE, Len(requests))
               /\ UNCHANGED requests
          ELSE IF app_state_predictor = NoneV
          THEN /\ response' = Answer(req, 503, NoCall, FALSE, Len(requests))
               /\ UNCHANGED requests
          ELSE /\ requests' = Append(requests, req)
               /\ UNCHANGED response
  /\ UNCHANGED <<model_file, predictor, app_state_predictor, lifecycle, health,
                 last_init, constructed>>
  /\ UNCHANGED converterVars

\* main.py:114-139: the rest of POST /predict: the upload is read, its size
\* checked, predictor.predict called and its result answered
PredictFinish ==
  /\ \E i \in 1..Len(requests), upload \in Uploads, read_ok \in BOOLEAN :
       LET req == requests[i]
           others == Len(requests) - 1
       IN /\ requests' = RemoveAt(requests, i)
          /\ IF ~read_ok
             THEN /\ response' = Answer(req, 400, NoCall, FALSE, others)
                  /\ UNCHANGED constructed
             ELSE IF upload.too_large
             THEN /\ response' = Answer(req, 413, NoCall, FALSE, others)
                  /\ UNCHANGED constructed
             ELSE \E p \in PredictResults(upload) :
                    /\ response' =
                         IF p.k = "raise"
                         THEN Answer(req, 500, NoCall, p.ran, others)
                         ELSE Answer(req, StatusOf(p.result), p.result, p.ran, others)
                    /\ constructed' =
                         IF p.ran
                         THEN [constructed EXCEPT ![req.seen.id].model = ForwardPass(@)]
                         ELSE constructed
  /\ UNCHANGED <<model_file, predictor, app_state_predictor, lifecycle, health, last_init>>
  /\ UNCHANGED converterVars

NextServer ==
  \/ ReplaceModelFile
  \/ LifespanStartup
  \/ LifespanShutdown
  \/ Root
  \/ PredictBegin
  \/ PredictFinish

SpecServer == InitServer /\ [][NextServer]_vars

(***************************************************************************)
(* What the claims speak of.                                               *)
(***************************************************************************)
\* persistent_load has been called
Called == last_result.k # "nocall"

\* the reference has the fields of an External Reference and the tag "storage"
HasFields(saved_id) ==
  /\ saved_id.t = "tuple"
  /\ Len(saved_id.items) >= 4
  /\ saved_id.items[1] = StrV(S_storage)

\* the field the running script reads the storage index from
IndexField(saved_id) ==
  IF variant = "convert_final" THEN saved_id.items[3] ELSE saved_id.items[4]

DescriptorField(saved_id) == saved_id.items[2]

\* the keys of the Storage Blob Index of the running script
IndexKeys ==
  IF variant = "convert_model_v2" THEN DOMAIN storage_files ELSE DOMAIN storage_data

\* the bytes the index holds for key k
BlobOf(k) ==
  IF variant = "convert_model_v2" THEN data_dir[storage_files[k]] ELSE File(storage_data[k])

\* the class name of a descriptor: the text itself, or the __name__ of the class
DescriptorName(d) == IF d.t = "str" THEN d.s ELSE IF d.t = "class" THEN d.name ELSE <<>>

\* the descriptor names an element type of the closed set
InClosedSet(d) == \E n \in ClosedNames : DescriptorName(d) = n \o N_Storage

\* the element-type table of the specification
TableDtype(d) ==
  LET n == CHOOSE m \in ClosedNames : DescriptorName(d) = m \o N_Storage
  IN CASE n = N_Float -> "float32" [] n = N_Double -> "float64" [] n = N_Half -> "float16"
       [] n = N_Int -> "int32" [] n = N_Long -> "int64" [] n = N_Short -> "int16"
       [] n = N_Byte -> "uint8" [] n = N_Char -> "uint8" [] n = N_Bool -> "bool"

\* the reference names a blob that is there, and an element type of the table
Resolvable(saved_id) ==
  /\ HasFields(saved_id)
  /\ PyInt(IndexField(saved_id)).ok
  /\ PyInt(IndexField(saved_id)).val \in IndexKeys
  /\ BlobOf(PyInt(IndexField(saved_id)).val).kind = "file"
  /\ InClosedSet(DescriptorField(saved_id))

\* the bytes of the blob the reference names
RefBlob(saved_id) == BlobOf(PyInt(IndexField(saved_id)).val).raw

\* the run has stopped without success
Aborted == pc = "exit" /\ ret # "True"

(***************************************************************************)
(* C1.  A reference whose storage index is no key of the blob index makes  *)
(* persistent_load fail with the missing-storage error; it returns         *)
(* nothing, neither a storage nor None.                                    *)
(***************************************************************************)
C1_MissingStorageIsFatal ==
  (/\ variant \in Variants
   /\ Called
   /\ HasFields(last_ref)
   /\ PyInt(IndexField(last_ref)).ok
   /\ PyInt(IndexField(last_ref)).val \notin IndexKeys)
  => last_result = Raise("RuntimeError", "storage_not_found")

(***************************************************************************)
(* C2.  All or nothing: in a run of convert_final.py or                    *)
(* convert_model_v2.py in which the resolution of a reference has failed,  *)
(* nothing is ever handed to model.load_state_dict, effv2s_fold5.pt is     *)
(* never written, and the conversion function does not report success.     *)
(***************************************************************************)
C2_AllOrNothing ==
  (variant \in {"convert_final", "convert_model_v2"} /\ unresolved > 0)
  => /\ handed = NoCall
     /\ ~output_written
     /\ pc = "exit" => ret # "True"

(***************************************************************************)
(* C3.  A saved_id that is no tuple, or lacks one of the four fields of an *)
(* External Reference, or has a tag other than "storage", makes            *)
(* persistent_load of convert_final.py and convert_model_v2.py raise the   *)
(* malformed-reference error: it yields no value.  (A fifth field, the     *)
(* size, is part of the format convert_final.py documents and is not       *)
(* counted as a wrong arity here.)                                         *)
(***************************************************************************)
C3_MalformedIsFatal ==
  (/\ variant \in {"convert_final", "convert_model_v2"}
   /\ Called
   /\ \/ last_ref.t # "tuple"
      \/ Len(last_ref.items) < 4
      \/ last_ref.items[1] # StrV(S_storage))
  => /\ last_result.k = "raise"
     /\ last_result.why \in {"unexpected_persistent_id", "unknown_tag"}

(***************************************************************************)
(* C4.  In convert_final.py and convert_model_v3.py the storage index is   *)
(* accepted as an int and as its decimal text, and both name the same      *)
(* blob: two references that differ only in that have the same outcome.    *)
(* An index that is no number is rejected with the RuntimeError of the     *)
(* resolver.                                                               *)
(***************************************************************************)
\* b is a with the int index written as text
SameButIndexAsText(a, b) ==
  /\ HasFields(a) /\ HasFields(b)
  /\ Len(a.items) = Len(b.items)
  /\ IndexField(a).t = "int" /\ IndexField(b).t = "str"
  /\ ParseInt(IndexField(b).s).ok
  /\ ParseInt(IndexField(b).s).val = IndexField(a).i
  /\ \A i \in 1..Len(a.items) : a.items[i] # b.items[i] => a.items[i] = IndexField(a)

C4_IndexAsIntOrText ==
  (variant \in {"convert_final", "convert_model_v3"})
  => /\ Called
        => \A b \in Refs :
             (SameButIndexAsText(last_ref, b) \/ SameButIndexAsText(b, last_ref))
             => PersistentLoad(b) = last_result
     /\ (Called /\ HasFields(last_ref) /\ ~PyInt(IndexField(last_ref)).ok)
        => last_result.k = "raise" /\ last_result.exc = "RuntimeError"

(***************************************************************************)
(* C5.  A descriptor outside the closed set, such as "ExoticStorage",      *)
(* makes persistent_load fail and the run abort: no storage of any type    *)
(* is made for it and no output file is written.                           *)
(***************************************************************************)
C5_UnknownTypeIsFatal ==
  (/\ variant \in Variants
   /\ Called
   /\ HasFields(last_ref)
   /\ ~InClosedSet(DescriptorField(last_ref)))
  => /\ last_result.k = "raise"
     /\ Aborted
     /\ ~output_written

(***************************************************************************)
(* C6.  In convert_final.py and convert_model_v3.py every descriptor of    *)
(* the closed set is decoded as the element type the table gives it: Int   *)
(* as int32, Char as uint8, and so on.                                     *)
(***************************************************************************)
C6_DispatchFollowsTable ==
  (/\ variant \in {"convert_final", "convert_model_v3"}
   /\ Called
   /\ HasFields(last_ref)
   /\ InClosedSet(DescriptorField(last_ref))
   /\ GaveStorage(last_result))
  => last_result.val.dtype = TableDtype(DescriptorField(last_ref))

(***************************************************************************)
(* C7.  In convert_final.py and convert_model_v2.py, a reference to a      *)
(* present blob with a descriptor of the closed set, the blob's length a   *)
(* multiple of the element width, gives a storage of length / width        *)
(* elements.  Stated here for the blobs that are not empty; the empty      *)
(* blob is the ValueError of FromBuffer.                                   *)
(***************************************************************************)
C7_ElementCount ==
  (/\ variant \in {"convert_final", "convert_model_v2"}
   /\ Called
   /\ Resolvable(last_ref)
   /\ Len(RefBlob(last_ref)) > 0
   /\ Len(RefBlob(last_ref)) % ItemSize(TableDtype(DescriptorField(last_ref))) = 0)
  => /\ GaveStorage(last_result)
     /\ Numel(last_result.val) =
          Len(RefBlob(last_ref)) \div ItemSize(TableDtype(DescriptorField(last_ref)))

(***************************************************************************)
(* C8.  In convert_final.py and convert_model_v2.py, a reference to a      *)
(* present blob whose length is no multiple of the width of the element    *)
(* type the resolver chose fails and aborts the conversion: no storage is  *)
(* made of a cut or padded buffer, and nothing is returned.                *)
(***************************************************************************)
\* the element type the running script chooses for a descriptor
ChosenDtype(d) ==
  CASE variant = "convert_final" -> DtypeFinal(PyStr(d))
    [] variant = "convert_model_v3" -> IF d.t = "str" THEN DtypeV3(d.s) ELSE "unknown"
    [] variant = "convert_model_v2" -> IF d.t = "str" THEN DtypeV2(d.s) ELSE "unknown"

C8_BadLengthIsFatal ==
  (/\ variant \in {"convert_final", "convert_model_v2"}
   /\ Called
   /\ Resolvable(last_ref)
   /\ ChosenDtype(DescriptorField(last_ref)) # "unknown"
   /\ Len(RefBlob(last_ref)) % ItemSize(ChosenDtype(DescriptorField(last_ref))) # 0)
  => /\ last_result.k = "raise"
     /\ Aborted

(***************************************************************************)
(* C9.  Once the index is built, in convert_final.py and                   *)
(* convert_model_v2.py, its keys are the values of the entry names that    *)
(* are non-negative decimal integers, no more and no fewer, and each key   *)
(* stands for the whole bytes of a file of that name.  Stated here for     *)
(* the directories whose entries can all be read; a failed read is C10.    *)
(***************************************************************************)
\* the index has been built and nothing has happened since
IndexBuilt == pc = "unpickle" /\ ~Called

C9_IndexKeys ==
  (/\ variant \in {"convert_final", "convert_model_v2"}
   /\ IndexBuilt
   /\ \A n \in DirNames : data_dir[n].kind # "unreadable")
  => /\ IndexKeys = {ParseInt(n).val :
                       n \in {m \in Present(data_dir) :
                                ParseInt(m).ok /\ ParseInt(m).val >= 0}}
     /\ \A k \in IndexKeys :
          \E n \in Present(data_dir) :
            /\ ParseInt(n).ok /\ ParseInt(n).val = k
            /\ BlobOf(k) = data_dir[n]

(***************************************************************************)
(* C10.  Only an entry with a non-numeric name is passed over: when the    *)
(* reading of an integer-named blob file fails, in convert_final.py and    *)
(* convert_model_v2.py, the run ends in failure and does not go on.        *)
(***************************************************************************)
C10_ReadFailureIsFatal ==
  (variant \in {"convert_final", "convert_model_v2"} /\ io_failed # {})
  => Aborted

(***************************************************************************)
(* C11.  When unpickling gives a mapping whose one key is "model" and      *)
(* whose value is a parameter map M, the step that takes the wrapper off   *)
(* leaves exactly M, and M is what model.load_state_dict is called with.   *)
(***************************************************************************)
\* the top-level result is {"model": M} for a mapping M
WrapsOneMap(sd) ==
  /\ sd.t = "dict"
  /\ DOMAIN sd.d = {S_model}
  /\ sd.d[S_model].t = "dict"

C11_UnwrapsToInnerMap ==
  [][/\ (pc = "loaded" /\ pc' = "processed" /\ WrapsOneMap(state_dict))
        => state_dict' = state_dict.d[S_model]
     /\ (pc = "processed" /\ handed' # handed)
        => handed' = Ret(state_dict)]_vars

(***************************************************************************)
(* C12.  The device hint of a reference is not used: two references that   *)
(* differ in nothing but the hint ("cpu", "cuda:0", or a value that is no  *)
(* text) have the same outcome, the same error or equal storages, and a    *)
(* storage the resolver gives is always a CPU storage.                     *)
(***************************************************************************)
\* where the running script takes the device hint to be
DevicePos == IF variant = "convert_final" THEN 4 ELSE 3

SameButDevice(a, b) ==
  /\ a.t = "tuple" /\ b.t = "tuple"
  /\ Len(a.items) >= 4
  /\ Len(a.items) = Len(b.items)
  /\ \A i \in 1..Len(a.items) : a.items[i] # b.items[i] => i = DevicePos

C12_DeviceHintIgnored ==
  (variant \in Variants /\ Called)
  => /\ \A b \in Refs : SameButDevice(last_ref, b) => PersistentLoad(b) = last_result
     /\ GaveStorage(last_result) => last_result.val.device = "cpu"

\* a reference that names cuda:0 has been resolved to a storage, and the
\* stream may hold the same reference with another hint
C12_Witness ==
  /\ variant \in {"convert_final", "convert_model_v3"}
  /\ Called
  /\ last_ref.t = "tuple" /\ Len(last_ref.items) >= 4
  /\ last_ref.items[DevicePos] = StrV(S_cuda0)
  /\ GaveStorage(last_result)
  /\ \E b \in Refs : b # last_ref /\ SameButDevice(last_ref, b)

(***************************************************************************)
(* C13.  In a run of convert_final.py or convert_model_v2.py no blob file  *)
(* is read more than once, and a call of persistent_load reads no file     *)
(* and leaves the index as it is: the reading is done when the index is    *)
(* built.                                                                  *)
(***************************************************************************)
\* what a step of such a run keeps to
ReadsOnlyAtBuild ==
  variant \in {"convert_final", "convert_model_v2"}
  => /\ \A n \in DirNames : reads'[n] <= 1
     /\ nrefs' # nrefs
        => /\ reads' = reads
           /\ storage_data' = storage_data
           /\ storage_files' = storage_files

C13_ReadOnceAtBuild == [][ReadsOnlyAtBuild]_vars

(***************************************************************************)
(* C14.  A converter run ends in one of two ways.  Either the function     *)
(* returned True and the exit status is 0, and then every reference was    *)
(* resolved, a map of tensors was loaded into the model and                *)
(* effv2s_fold5.pt was written; or the exit status is 1.  A run that has   *)
(* not ended has no exit status.                                           *)
(***************************************************************************)
C14_ExitStatus ==
  /\ pc # "exit" => exit_code = -1 /\ ret = "running"
  /\ pc = "exit"
     => /\ exit_code \in {0, 1}
        /\ exit_code = 0 <=> ret = "True"
        /\ exit_code = 0
           => /\ unresolved = 0
              /\ handed.k = "return"
              /\ handed.val.t = "dict"
              /\ AllTensors(handed.val)
              /\ output_written
              /\ output_file = DictV(Put(EmptyDict, S_model, ModelStateDict(handed.val)))

\* a run in which a reference was not resolved, a map was still handed to
\* the model, and the script exited with status 1
C14_Witness ==
  /\ pc = "exit"
  /\ exit_code = 1
  /\ unresolved > 0
  /\ handed # NoCall

(***************************************************************************)
(* C15.  Round trip: once a converter has written effv2s_fold5.pt, what    *)
(* the serving loader gets from it (torch.load, then the "model" entry)    *)
(* is the parameter map the converter resolved: the same names, and for    *)
(* each name a tensor of the same element type and the same bytes.         *)
(***************************************************************************)
C15_RoundTrip ==
  (output_written /\ handed.k = "return")
  => ServingUnwrap(output_file) = handed.val

(***************************************************************************)
(* C16.  No step of a request handler, the health endpoint or /predict     *)
(* before and after its await, under any interleaving of requests, writes  *)
(* app.state.predictor, the global predictor, or an ImagePredictor and     *)
(* the model it holds.                                                     *)
(***************************************************************************)
HandlersWriteNothing ==
  (requests' # requests \/ response' # response \/ health' # health)
  => UNCHANGED <<app_state_predictor, predictor, constructed>>

C16_HandlersReadOnly == [][HandlersWriteNothing]_vars

\* the model has run for a request and answered 200 while other requests
\* were, and still are, in flight
C16_Witness ==
  /\ response.k = "return"
  /\ response.ran
  /\ response.status = 200
  /\ response.others > 0
  /\ Len(requests) > 0

(***************************************************************************)
(* C17.  When MODEL_PATH holds nothing at startup, app.state.predictor is  *)
(* None while the app is up, every /predict request of that lifespan       *)
(* whose file name passes the validation is answered 503 at once without   *)
(* the model being run, and the health endpoint says "degraded"; the       *)
(* health endpoint says "ok" exactly when app.state.predictor is a         *)
(* predictor.                                                              *)
(***************************************************************************)
\* the app is up and found no model file when it started
UpWithoutModel == lifecycle.phase = "up" /\ ~lifecycle.found

C17_DegradedWithoutModel ==
  /\ UpWithoutModel => app_state_predictor = NoneV /\ requests = <<>>
  /\ (/\ UpWithoutModel
      /\ response.k = "return"
      /\ response.epoch = lifecycle.starts
      /\ ValidateFilename(response.filename) = 0)
     => /\ response.status = 503
        /\ ~response.ran
        /\ response.result = NoCall
  /\ health.k = "return"
     => /\ health.status = "ok" <=> health.seen.t = "ref"
        /\ (UpWithoutModel /\ health.epoch = lifecycle.starts)
           => health.status = "degraded"

\* without a model file, a request with a good file name was answered 503
\* and the health endpoint has answered
C17_Witness ==
  /\ UpWithoutModel
  /\ health.k = "return" /\ health.epoch = lifecycle.starts
  /\ response.k = "return"
  /\ response.epoch = lifecycle.starts
  /\ response.filename = StrV(<<"a",".","J","P","G">>)
  /\ response.status = 503

(***************************************************************************)
(* C18.  Across the calls of initialize_predictor in one process at most   *)
(* one ImagePredictor is ever built; a call that finds the global          *)
(* predictor set returns that object and loads nothing, whatever the path  *)
(* holds; a call whose construction raises leaves the global None.         *)
(***************************************************************************)
C18_LoadedOnce ==
  /\ Len(constructed) <= 1
  /\ last_init.k # "nocall"
     => /\ last_init.pre # NoneV
           => /\ last_init.k = "return"
              /\ last_init.val = last_init.pre
              /\ ~last_init.built
        /\ last_init.k = "raise" => predictor = NoneV
        /\ last_init.k = "return" => predictor # NoneV /\ last_init.val = predictor

\* a second call, made when the path holds something else than the first
\* call loaded, returned the predictor of the first
C18_Witness ==
  /\ last_init.k = "return"
  /\ last_init.pre # NoneV
  /\ last_init.ckpt # constructed[last_init.val.id].ckpt

(***************************************************************************)
(* C19.  persistent_load checks a reference in the order shape, tag,       *)
(* index, blob, element type, and the first check that fails names the     *)
(* error: a saved_id that is no tuple of four fields fails as an           *)
(* unexpected persistent id, a tuple with another tag as an unknown tag,   *)
(* and a reference that is dangling and of unknown element type as         *)
(* missing storage.                                                        *)
(***************************************************************************)
C19_FirstFailingCheck ==
  (variant \in Variants /\ Called)
  => /\ (last_ref.t # "tuple" \/ Len(last_ref.items) < 4)
        => last_result = Raise("RuntimeError", "unexpected_persistent_id")
     /\ (/\ last_ref.t = "tuple"
         /\ Len(last_ref.items) >= 4
         /\ last_ref.items[1] # StrV(S_storage))
        => last_result = Raise("RuntimeError", "unknown_tag")
     /\ (/\ HasFields(last_ref)
         /\ PyInt(IndexField(last_ref)).ok
         /\ PyInt(IndexField(last_ref)).val \notin IndexKeys
         /\ ~InClosedSet(DescriptorField(last_ref)))
        => last_result = Raise("RuntimeError", "storage_not_found")

(***************************************************************************)
(* C20.  The "model" wrapper is taken off a mapping only when "model" is   *)
(* its one key: a mapping with more than one key, be it the top-level      *)
(* result or the map left by one unwrapping, goes to                       *)
(* model.load_state_dict as it is, also when one of its keys is "model".   *)
(***************************************************************************)
\* a mapping with more than one key
ManyKeys(sd) == sd.t = "dict" /\ Cardinality(DOMAIN sd.d) > 1

UnwrapKeepsManyKeys ==
  /\ (pc = "loaded" /\ pc' = "processed" /\ ManyKeys(state_dict))
     => state_dict' = state_dict
  /\ (/\ pc = "loaded" /\ pc' = "processed"
      /\ WrapsOneMap(state_dict)
      /\ ManyKeys(state_dict.d[S_model]))
     => state_dict' = state_dict.d[S_model]
  /\ (pc = "processed" /\ handed' # handed)
     => handed' = Ret(state_dict)

C20_OnlySingleKeyUnwrapped == [][UnwrapKeepsManyKeys]_vars

(***************************************************************************)
(* C21.  In convert_model.py and convert_model_v2.py, a run that ends in   *)
(* failure (the function returned False or an exception escaped it, exit   *)
(* status not 0) has not written effv2s_fold5.pt.                          *)
(***************************************************************************)
C21_FailureWritesNothing ==
  (/\ variant \in {"convert_model", "convert_model_v2"}
   /\ pc = "exit"
   /\ exit_code # 0)
  => ~output_written

(***************************************************************************)
(* C22.  A /predict response has status 200 only if predict returned a     *)
(* success dictionary with predicted_label, predicted_index and            *)
(* probabilities; a response to a request for which predict returned an    *)
(* error dictionary has a status other than 200; and predict never raises: *)
(* on every upload and every fault it returns a success dictionary or an   *)
(* error dictionary.                                                       *)
(***************************************************************************)
\* the error codes of model_inference.py:149-237
ErrorCodes ==
  {"INVALID_IMAGE", "PREPROCESSING_ERROR", "INFERENCE_ERROR", "INVALID_PROBABILITY",
   "PROBABILITY_ERROR", "PREDICTION_ERROR", "UNEXPECTED_ERROR"}

C22_OkOnlyOnSuccess ==
  /\ response.k = "return"
     => /\ response.status = 200
           => /\ response.result # NoCall
              /\ {"predicted_label", "predicted_index", "probabilities"}
                   \subseteq response.result.keys
              /\ response.result.error_code = "none"
        /\ (response.result # NoCall /\ "error_code" \in response.result.keys)
           => /\ response.status # 200
              /\ response.result.error_code \in ErrorCodes
  /\ \A upload \in Uploads, fault \in Faults :
       /\ Predict(upload, fault).k = "return"
       /\ \/ Predict(upload, fault).result = Success
          \/ \E code \in ErrorCodes : Predict(upload, fault).result = ErrorDict(code)

\* the forward pass failed for a request, predict returned the error
\* dictionary INFERENCE_ERROR and the endpoint answered 500
C22_Witness ==
  /\ response.k = "return"
  /\ response.ran
  /\ response.result # NoCall
  /\ response.result.error_code = "INFERENCE_ERROR"
  /\ response.status = 500

(***************************************************************************)
(* C23.  convert_model.py leaves torch._utils._rebuild_tensor_v2 as it     *)
(* found it: the global is the CPU wrapper exactly while method 3's        *)
(* unpickling is in progress, and it is the original function at every     *)
(* other point of the run, in particular when the call has returned,       *)
(* whichever of the three methods loaded or failed.                        *)
(***************************************************************************)
C23_RebuildRestored ==
  /\ rebuild_tensor_v2 = "rebuild_tensor_cpu"
     <=> (variant = "convert_model" /\ pc = "unpickle")
  /\ pc = "exit" => rebuild_tensor_v2 = "original_rebuild"

\* a run of convert_model.py that went through method 3, whose unpickling
\* resolved a reference, and that has returned
C23_Witness ==
  /\ variant = "convert_model"
  /\ pc = "exit"
  /\ nrefs > 0
  /\ last_result.k = "return"

=============================================================================
